---------------------------- MODULE Spec2Model ----------------------------
(***************************************************************************)
(* Model of the CC2022 control panel protocol layer:                       *)
(*   - CanSat::ControlPanel::onDataReceived  (stream reassembler)          *)
(*   - CanSat::ControlPanel::processFrame / createCsv  (frame router)      *)
(*   - CanSat::ControlPanel::sendData  (XBee API frame encoder)            *)
(*   - SerialStudio::Plugin  (transport)                                   *)
(*                                                                         *)
(* A QByteArray is modelled as a sequence of runs [b |-> byte, n |-> count]*)
(* in which adjacent runs hold different bytes; a run of n equal bytes     *)
(* stands for those n bytes, so that buffers of 100 KB stay representable. *)
(***************************************************************************)
EXTENDS Integers, Sequences, FiniteSets, TLC

VARIABLES
    m_dataBuffer,     \* QByteArray m_dataBuffer
    m_payloadCsv,     \* QFile m_payloadCsv: [isOpen, data]
    m_containerCsv,   \* QFile m_containerCsv: [isOpen, data]
    printed,          \* the printLn signals emitted, in order
    stream,           \* history: every byte handed to onDataReceived so far
    routed,           \* history: every processFrame call [frame, at, end]
    unconsumed,       \* history: m_dataBuffer.size() after line 306 of the last event
    purgedAt,         \* history: size of stream when the buffer was last cleared
    garbageChunks,    \* history: number of filler chunks handed to onDataReceived
    csvFiles,         \* history: every createCsv call [container, opened]
    socketState,      \* m_socket.state() of SerialStudio::Plugin
    apiFrame,         \* the last QByteArray handed to Plugin::write
    txData,           \* the QString (runs of code points) of the last sendData call
    txResult,         \* the value returned by the last sendData call
    txCount,          \* number of sendData calls made
    wire,             \* history: every Plugin::write call [frame, taken]
    m_simulationEnabled,          \* bool m_simulationEnabled
    m_simulationActivated,        \* bool m_simulationActivated
    m_containerTelemetryEnabled,  \* bool m_containerTelemetryEnabled
    m_row,            \* int m_row
    m_csvData,        \* QList<QStringList> m_csvData: a sequence of rows of fields
    m_file,           \* QFile m_file: TRUE iff it is open
    timers,           \* the pending QTimer::singleShot(sendSimulatedData): seconds left
    ticks,            \* history: for each pending timer, [start, cancelled]
    messageBoxes,     \* history: the titles of the showMessageBox calls of the feeder
    connecting,       \* number of connection attempts m_socket has in flight
    sockIn,           \* the bytes sent by the companion that m_socket has not read yet
    sentData          \* history: the data payloads of the messages sent by the companion

inVars == <<sockIn, sentData>>
rxVars == <<m_dataBuffer, m_payloadCsv, m_containerCsv, printed, stream, routed,
            unconsumed, purgedAt, garbageChunks, csvFiles, sockIn, sentData>>
sendVars == <<apiFrame, txData, txResult, txCount, wire>>
sockVars == <<socketState, connecting>>
txVars == <<socketState, connecting, apiFrame, txData, txResult, txCount, wire>>
vars == <<m_dataBuffer, m_payloadCsv, m_containerCsv, printed, stream, routed,
          unconsumed, purgedAt, garbageChunks, csvFiles, socketState, apiFrame, txData, txResult, txCount,
          wire, m_simulationEnabled, m_simulationActivated, m_containerTelemetryEnabled,
          m_row, m_csvData, m_file, timers, ticks, messageBoxes, connecting, sockIn,
          sentData>>
fdVars == <<m_simulationEnabled, m_simulationActivated, m_containerTelemetryEnabled,
            m_row, m_csvData, m_file, timers, ticks, messageBoxes>>

---------------------------------------------------------------------------
(* Bounds of the model *)

\* longest inbound byte stream of the reassembler specification
MaxStream == 8
\* longest single chunk of literal bytes handed to onDataReceived
MaxChunk == 8
\* most createCsv attempts whose outcome is chosen per receive event
MaxOpens == 2
\* longest inbound stream of the frame specification, in units of two bytes
MaxPairs == 8
\* most pieces (markers, tags) joined into one chunk of the frame specification
MaxPieces == 4
\* most literal bytes of the inbound stream of the overflow specification
MaxNoise == 6
\* most garbage chunks delivered in the overflow specification
MaxGarbage == 1
\* longest command of literal characters handed to sendData
MaxCommand == 2
\* most sendData calls of the encoder specification
MaxSends == 2
\* most processFrame calls of the router specification
MaxFrames == 4
\* most delimited frames joined into one chunk of the router specification
MaxPerEvent == 2
\* most commands transmitted in one run of the feeder specification
MaxCommands == 3
\* most datasets loaded in one run of the feeder specification
MaxLoads == 1
\* most printLn signals before a handler call of the mode specification
MaxModePrinted == 2
\* most single-shot timers pending at once in the feeder specification
MaxTimers == 2
\* most writes that the socket refuses in the feeder and mode specifications
MaxRefused == 1
\* most loads of the feeder specification that fail to open the chosen file
MaxOpenErrors == 1
\* most commands transmitted in a run of the send loop
MaxRunCommands == 6
\* most commands of the user in the liveness specification
MaxLiveCommands == 2
\* most messages sent by the companion in the transport specification
MaxMessages == 3

---------------------------------------------------------------------------
(* Byte values *)

SLASH == 47
STAR == 42
NEWLINE == 10

---------------------------------------------------------------------------
(* QByteArray *)

Min(a, b) == IF a < b THEN a ELSE b

\* QByteArray::append(char), keeping adjacent runs distinct
AppendRun(s, b, n) ==
    IF n <= 0 THEN s
    ELSE IF Len(s) > 0 /\ s[Len(s)].b = b
         THEN [s EXCEPT ![Len(s)].n = @ + n]
         ELSE Append(s, [b |-> b, n |-> n])

\* QByteArray::append(const QByteArray &): the run that ends s and the run
\* that starts t merge when they hold the same byte
Cat(s, t) ==
    IF Len(t) = 0 THEN s
    ELSE AppendRun(s, t[1].b, t[1].n) \o Tail(t)

\* the QByteArray holding the first i bytes of seq
RECURSIVE BytesUpTo(_, _)
BytesUpTo(seq, i) ==
    IF i = 0 THEN <<>> ELSE AppendRun(BytesUpTo(seq, i - 1), seq[i], 1)

\* the QByteArray holding the bytes of seq
Bytes(seq) == BytesUpTo(seq, Len(seq))

RECURSIVE SizeFrom(_, _)
SizeFrom(s, i) == IF i > Len(s) THEN 0 ELSE s[i].n + SizeFrom(s, i + 1)

\* QByteArray::size()
Size(s) == SizeFrom(s, 1)

\* the bytes of s from byte position k on (0 <= k)
RECURSIVE DropBytes(_, _)
DropBytes(s, k) ==
    IF k <= 0 \/ Len(s) = 0 THEN s
    ELSE IF s[1].n <= k THEN DropBytes(Tail(s), k - s[1].n)
         ELSE <<[b |-> s[1].b, n |-> s[1].n - k]>> \o Tail(s)

\* the first k bytes of s (0 <= k)
RECURSIVE TakeBytes(_, _)
TakeBytes(s, k) ==
    IF k <= 0 \/ Len(s) = 0 THEN <<>>
    ELSE IF s[1].n <= k THEN <<s[1]>> \o TakeBytes(Tail(s), k - s[1].n)
         ELSE <<[b |-> s[1].b, n |-> k]>>

RECURSIVE IndexFrom(_, _, _, _, _)
IndexFrom(s, x, y, i, off) ==
    IF i >= Len(s) THEN -1
    ELSE IF s[i].b = x /\ s[i + 1].b = y THEN off + s[i].n - 1
         ELSE IndexFrom(s, x, y, i + 1, off + s[i].n)

\* QByteArray::indexOf of the two-byte sequence x y (x # y), -1 when absent
IndexOf(s, x, y) == IndexFrom(s, x, y, 1, 0)

\* QByteArray::contains of the two-byte sequence x y
Contains(s, x, y) == IndexOf(s, x, y) >= 0

\* QByteArray::mid(pos, -1)
Mid(s, pos) ==
    IF pos > Size(s) THEN <<>>
    ELSE IF pos < 0 THEN s
         ELSE DropBytes(s, pos)

\* left() taking the finish sequence along with the frame
Left_withFinish(s, len) ==
    IF len + 2 >= Size(s) THEN s
    ELSE IF len < 0 THEN <<>>
         ELSE TakeBytes(s, len + 2)

\* QByteArray::left(len)
Left(s, len) ==
    IF len >= Size(s) THEN s
    ELSE IF len < 0 THEN <<>>
         ELSE TakeBytes(s, len)

\* remove() that leaves the parsed bytes in the buffer
Remove_nothing(s, len) == s

\* QByteArray::remove(0, len)
Remove(s, len) ==
    IF len <= 0 \/ Size(s) = 0 THEN s
    ELSE IF len > Size(s) THEN <<>>
         ELSE DropBytes(s, len)

\* a test that also accepts the prefix one byte into s
StartsWith_skipOne(s, prefix) ==
    \/ TakeBytes(s, Size(prefix)) = prefix
    \/ TakeBytes(DropBytes(s, 1), Size(prefix)) = prefix

\* QByteArray::startsWith
StartsWith(s, prefix) == TakeBytes(s, Size(prefix)) = prefix

\* the byte at position k (0-based), -1 beyond the end
ByteAt(s, k) == IF k < 0 \/ k >= Size(s) THEN -1 ELSE DropBytes(s, k)[1].b


---------------------------------------------------------------------------
(* Frame router: processFrame and createCsv *)

\* "6026", the payload tag
TagPayload == Bytes(<<54, 48, 50, 54>>)
\* "1026", the container tag
TagContainer == Bytes(<<49, 48, 50, 54>>)

\* a QFile that was never opened
ClosedFile == [isOpen |-> FALSE, data |-> <<>>]

\* The router's state while one receive event runs: the two log files, the
\* printLn signals, and the number of createCsv calls made in this event.
\* opens[k] tells whether the k-th QFile::open of the event succeeds.
OpenOutcome(opens, k) == opens[Min(k, MaxOpens)]

\* a createCsv that closes and reopens both logs
createCsv_both(rt, createContainerCsv, opens) ==
    LET k == rt.calls + 1
        file == [isOpen |-> OpenOutcome(opens, k), data |-> <<>>]
    IN  [rt EXCEPT !.calls = k,
                   !.files = Append(@, [container |-> createContainerCsv,
                                        opened |-> file.isOpen]),
                   !.printed = Append(@, [kind |-> "INFO", text |-> <<>>]),
                   !.container = file,
                   !.payload = file]

\* createCsv(createContainerCsv): emits printLn, closes the file, opens a
\* fresh one for writing; the file is open afterwards iff open() succeeded.
createCsv(rt, createContainerCsv, opens) ==
    LET k == rt.calls + 1
        ok == OpenOutcome(opens, k)
        file == [isOpen |-> ok, data |-> <<>>]
        base == [rt EXCEPT !.calls = k,
                           !.files = Append(@, [container |-> createContainerCsv,
                                                opened |-> ok]),
                           !.printed = Append(@, [kind |-> "INFO", text |-> <<>>])]
    IN  IF createContainerCsv
        THEN [base EXCEPT !.container = file]
        ELSE [base EXCEPT !.payload = file]

\* a write without the newline
WriteLine_noNewline(file, frame) == [file EXCEPT !.data = Cat(@, frame)]

\* a write that starts the file afresh
WriteLine_fresh(file, frame) == [file EXCEPT !.data = AppendRun(frame, NEWLINE, 1)]

\* QFile::write(frame); QFile::write("\n")
WriteLine(file, frame) == [file EXCEPT !.data = AppendRun(Cat(@, frame), NEWLINE, 1)]

\* the printLn("  [RX]\t" + frame) of line 420
PrintRx(rt, frame) == [rt EXCEPT !.printed = Append(@, [kind |-> "RX", text |-> frame])]

processFrame(rt, frame, opens) ==
    IF frame = <<>> THEN rt
    ELSE IF StartsWith(frame, TagPayload)
    THEN LET r1 == IF rt.payload.isOpen THEN rt ELSE createCsv(rt, FALSE, opens)
         IN  IF ~r1.payload.isOpen THEN r1
             ELSE PrintRx([r1 EXCEPT !.payload = WriteLine(@, frame)], frame)
    ELSE IF StartsWith(frame, TagContainer)
    THEN LET r1 == IF rt.container.isOpen THEN rt ELSE createCsv(rt, TRUE, opens)
         IN  IF ~r1.container.isOpen THEN r1
             ELSE PrintRx([r1 EXCEPT !.container = WriteLine(@, frame)], frame)
    ELSE PrintRx(rt, frame)

RECURSIVE processFrames(_, _, _, _)
processFrames(rt, frames, i, opens) ==
    IF i > Len(frames) THEN rt
    ELSE processFrames(processFrame(rt, frames[i].frame, opens), frames, i + 1, opens)

---------------------------------------------------------------------------
(* Stream reassembler: onDataReceived *)

\* 1024 * 10 * 10, the size above which the buffer is cleared
BufferLimit == 102400

\* The while loop of onDataReceived. cursor and bytes are the locals of the
\* code; total is the size of the buffer the loop started from, so that
\* total - Size(cursor) is the position of the cursor in that buffer. Each
\* processFrame call is recorded with the position of the frame (at) and of
\* the finish sequence that closed it (end, -1 when indexOf found none).
RECURSIVE ReadFrames(_, _, _, _)
ReadFrames(cursor, bytes, total, out) ==
    IF Contains(cursor, SLASH, STAR) /\ Contains(cursor, STAR, SLASH)
    THEN LET sIndex == IndexOf(cursor, SLASH, STAR)
             c1 == Mid(cursor, sIndex + 2)
             b1 == bytes + sIndex + 2
             fIndex == IndexOf(c1, STAR, SLASH)
             frame == Left(c1, fIndex)
             c2 == Mid(c1, fIndex)
             b2 == b1 + fIndex + 2
             at == total - Size(c1)
             rec == [frame |-> frame, at |-> at,
                     end |-> IF fIndex >= 0 THEN at + fIndex ELSE -1]
         IN  ReadFrames(c2, b2, total, Append(out, rec))
    ELSE [cursor |-> cursor, bytes |-> bytes, frames |-> out]

\* the clear left out
ClearOversized_never(buf) == buf

\* the clear with a limit ten times too large
ClearOversized_late(buf) == IF Size(buf) > 1024 * 10 * 10 * 10 THEN <<>> ELSE buf

\* lines 308-310: clear the buffer when it holds more than BufferLimit bytes
ClearOversized(buf) == IF Size(buf) > BufferLimit THEN <<>> ELSE buf

\* the frame records of one event moved to positions of the whole stream
Shift(frames, base) ==
    [i \in 1..Len(frames) |->
        [frame |-> frames[i].frame,
         at |-> frames[i].at + base,
         end |-> IF frames[i].end >= 0 THEN frames[i].end + base ELSE -1]]

\* a chunk of n filler bytes ('x'), standing for non-conforming data
Garbage(n) == <<[b |-> 120, n |-> n]>>

\* the sizes of the garbage chunks: 10 KB and 100 KB
GarbageSizes == {10 * 1024, 100 * 1024}

IsGarbage(data) == \E n \in GarbageSizes : data = Garbage(n)

\* TRUE when processFrame may call createCsv for one of the frames
NeedsOpen(frames) ==
    \E i \in 1..Len(frames) :
        StartsWith(frames[i].frame, TagPayload) \/ StartsWith(frames[i].frame, TagContainer)

\* the outcomes of the QFile::open calls of one event: every choice when a
\* log may have to be created, a single one otherwise (none is consulted)
OpenOutcomes(frames) ==
    IF NeedsOpen(frames) THEN [1..MaxOpens -> BOOLEAN] ELSE {[k \in 1..MaxOpens |-> TRUE]}

onDataReceived(data) ==
    \E buffer \in {Cat(m_dataBuffer, data)} :
    \E r \in {ReadFrames(buffer, 0, Size(buffer), <<>>)} :
    \E rest \in {Remove(buffer, r.bytes)} :
    \E opens \in OpenOutcomes(r.frames) :
    \E rt \in {processFrames([payload |-> m_payloadCsv, container |-> m_containerCsv,
                              printed |-> printed, calls |-> 0, files |-> csvFiles],
                             r.frames, 1, opens)} :
        /\ m_dataBuffer' = ClearOversized(rest)
        /\ m_payloadCsv' = rt.payload
        /\ m_containerCsv' = rt.container
        /\ printed' = rt.printed
        /\ csvFiles' = rt.files
        /\ stream' = Cat(stream, data)
        /\ routed' = routed \o Shift(r.frames, Size(stream) - Size(m_dataBuffer))
        /\ unconsumed' = Size(rest)
        /\ purgedAt' = IF Size(rest) > BufferLimit THEN Size(stream) + Size(data)
                       ELSE purgedAt
        /\ garbageChunks' = garbageChunks + (IF IsGarbage(data) THEN 1 ELSE 0)
        /\ UNCHANGED txVars
        /\ UNCHANGED fdVars

---------------------------------------------------------------------------
(* Transport: SerialStudio::Plugin *)

\* Plugin::isConnected
isConnected == socketState = "ConnectedState"

\* m_socket as the transport handlers see it: its state, the attempts in
\* flight, and the attempts in flight that the handler has dropped
Sock == [state |-> socketState, connecting |-> connecting, dropped |-> 0]

\* QAbstractSocket::abort: the socket is reset, an attempt in flight is dropped
abort(sock) ==
    [state |-> "UnconnectedState", connecting |-> 0,
     dropped |-> sock.dropped + sock.connecting]

\* QAbstractSocket::connectToHost: an attempt is started, unless the socket
\* is connecting or connected already
connectToHost(sock) ==
    IF sock.state = "UnconnectedState"
    THEN [sock EXCEPT !.state = "ConnectingState", !.connecting = @ + 1]
    ELSE sock

\* a poll that does not look at the connection
tryConnectionIn_unguarded(sock) == connectToHost(abort(sock))

\* Plugin::tryConnection on the socket sock
tryConnectionIn(sock) ==
    IF sock.state # "ConnectedState" THEN connectToHost(abort(sock)) ELSE sock

\* Plugin::tryConnection, the slot of the 1 Hz timer
tryConnection ==
    /\ \E sock \in {tryConnectionIn(Sock)} :
          /\ socketState' = sock.state
          /\ connecting' = sock.connecting
    /\ UNCHANGED sendVars
    /\ UNCHANGED rxVars
    /\ UNCHANGED fdVars

\* QTcpSocket: the pending connection is established
SocketConnected ==
    /\ socketState = "ConnectingState"
    /\ socketState' = "ConnectedState"
    /\ connecting' = 0
    /\ UNCHANGED sendVars
    /\ UNCHANGED rxVars
    /\ UNCHANGED fdVars

\* QTcpSocket: the pending connection fails, or the peer closes the connection
SocketClosed ==
    /\ socketState # "UnconnectedState"
    /\ socketState' = "UnconnectedState"
    /\ connecting' = 0
    /\ UNCHANGED sendVars
    /\ UNCHANGED rxVars
    /\ UNCHANGED fdVars

----------------------------------------------------------------------------
(* Transport, inbound: Plugin::onDataReceived *)

\* The bytes of the socket are modelled in units: JsonOpen stands for the
\* text {"data":" that opens a message of the companion, JsonClose for the
\* text "} that closes it, and a number 0..63 for one character of the
\* Base64 alphabet.
JsonOpen == -1
JsonClose == -2

\* QJsonDocument::fromJson: TRUE iff text is one complete JSON document, no
\* less and no more
IsJsonDocument(text) ==
    /\ Len(text) >= 2
    /\ text[1] = JsonOpen
    /\ text[Len(text)] = JsonClose
    /\ \A i \in 2..(Len(text) - 1) : text[i] >= 0

\* json.object().value("data").toString() of a complete document
DataOf(text) == SubSeq(text, 2, Len(text) - 1)

\* QByteArray::fromBase64 of the first 4 * n characters of base64: three
\* bytes for every four characters
RECURSIVE fromBase64(_, _)
fromBase64(base64, n) ==
    IF n = 0 THEN <<>>
    ELSE LET c == SubSeq(base64, 4 * n - 3, 4 * n)
             b1 == c[1] * 4 + c[2] \div 16
             b2 == (c[2] % 16) * 16 + c[3] \div 4
             b3 == (c[3] % 4) * 64 + c[4]
         IN  AppendRun(AppendRun(AppendRun(fromBase64(base64, n - 1), b1, 1), b2, 1), b3, 1)

\* the message the companion makes of the Base64 text base64
Message(base64) == <<JsonOpen>> \o base64 \o <<JsonClose>>

\* the Base64 texts Lyph, YSov and YWFh: the payloads /*a, a*/ and aaa
CompanionTexts == {<<11, 50, 41, 33>>, <<24, 18, 40, 47>>, <<24, 22, 5, 33>>}

\* the companion sends one message on the connection
CompanionSends ==
    /\ Size(sentData) < 3 * MaxMessages
    /\ \E base64 \in CompanionTexts :
          /\ sockIn' = sockIn \o Message(base64)
          /\ sentData' = Cat(sentData, fromBase64(base64, Len(base64) \div 4))
    /\ UNCHANGED <<m_dataBuffer, m_payloadCsv, m_containerCsv, printed, stream, routed,
                   unconsumed, purgedAt, garbageChunks, csvFiles>>
    /\ UNCHANGED txVars
    /\ UNCHANGED fdVars

\* the documents that Plugin::onDataReceived finds in the bytes read: the
\* one document that the bytes are, or none
Documents(text) == IF IsJsonDocument(text) THEN <<DataOf(text)>> ELSE <<>>

\* Plugin::onDataReceived, the slot of readyRead: readAll() returns the n
\* bytes that have arrived, and dataReceived(data) runs
\* ControlPanel::onDataReceived
PluginOnDataReceived ==
    \E n \in 1..Len(sockIn) :
    \E docs \in {Documents(SubSeq(sockIn, 1, n))} :
        /\ sockIn' = SubSeq(sockIn, n + 1, Len(sockIn))
        /\ sentData' = sentData
        /\ IF docs # <<>>
           THEN onDataReceived(fromBase64(docs[1], Len(docs[1]) \div 4))
           ELSE /\ UNCHANGED <<m_dataBuffer, m_payloadCsv, m_containerCsv, printed, stream,
                               routed, unconsumed, purgedAt, garbageChunks, csvFiles>>
                /\ UNCHANGED txVars
                /\ UNCHANGED fdVars

---------------------------------------------------------------------------
(* Frame encoder: sendData *)

\* QString::toUtf8 of n copies of the code point cp (cp < 2048)
RECURSIVE Utf8Run(_, _, _)
Utf8Run(out, cp, n) ==
    IF n = 0 THEN out
    ELSE IF cp < 128 THEN AppendRun(out, cp, n)
         ELSE AppendRun(AppendRun(Utf8Run(out, cp, n - 1), 192 + (cp \div 64), 1),
                        128 + (cp % 64), 1)

\* the UTF-8 bytes of the first i runs of str
RECURSIVE Utf8UpTo(_, _)
Utf8UpTo(str, i) ==
    IF i = 0 THEN <<>> ELSE Utf8Run(Utf8UpTo(str, i - 1), str[i].b, str[i].n)

\* QString::toUtf8
toUtf8(str) == Utf8UpTo(str, Len(str))

\* lines 438-446 before the replacement: 00 13 A2 00 41 B1 8C 8D
address64bit == Bytes(<<0, 19, 162, 0, 65, 177, 140, 141>>)
\* lines 449-451: FF FE
address16bit == Bytes(<<255, 254>>)
\* lines 479-481: 7D 33
msbAddress == Bytes(<<125, 51>>)

\* lines 454-464: the frame before the checksum is computed
TxFrame(data) ==
    Cat(AppendRun(AppendRun(Cat(Cat(Bytes(<<16, 0, 0>>), address64bit), address16bit),
                            0, 1), 0, 1),
        toUtf8(data))

\* lines 467-469: quint16 sum, wrapping at 2^16
RECURSIVE Sum16(_, _)
Sum16(frame, i) ==
    IF i = 0 THEN 0
    ELSE (Sum16(frame, i - 1) + frame[i].b * frame[i].n) % 65536

\* the checksum without the inversion
Checksum_plain(sum) == sum % 256

\* line 472: quint8 crc = 0xff - ((sum)&0xFF)
Checksum(sum) == 255 - (sum % 256)

\* the length of the other implementation (Communicator.cpp, length - 6)
FrameLength_minus6(frame) == (Size(frame) - 6) % 65536

\* line 475: quint16 length = frame.length() - 1
FrameLength(frame) == (Size(frame) - 1) % 65536

\* replace() that inserts without removing
Replace_insert(s, pos, len, after) == Cat(Cat(TakeBytes(s, pos), after), DropBytes(s, pos))

\* QByteArray::replace(pos, len, after), pos + len within s
Replace(s, pos, len, after) == Cat(Cat(TakeBytes(s, pos), after), DropBytes(s, pos + len))

\* lines 466-490: the bytes handed to Plugin::write for a non-empty command
ApiFrame(data) ==
    LET frame == TxFrame(data)
        crc == Checksum(Sum16(frame, Len(frame)))
        length == FrameLength(frame)
        sent == Replace(frame, 3, 2, msbAddress)
    IN  AppendRun(Cat(AppendRun(AppendRun(Bytes(<<126>>), (length \div 256) % 256, 1),
                                length % 256, 1),
                      sent),
                  crc, 1)

\* a write that reports success whatever the socket took
write_always(data, written) == TRUE

\* Plugin::write: TRUE iff m_socket.write() took all the bytes
write(data, written) == written = Size(data)

\* sendData(data); accepted tells whether m_socket.write() takes the bytes
\* or returns -1
sendData(data, accepted) ==
    /\ txCount < MaxSends
    /\ txCount' = txCount + 1
    /\ txData' = data
    /\ UNCHANGED sockVars
    /\ UNCHANGED fdVars
    /\ IF data = <<>> \/ ~isConnected
       THEN /\ txResult' = FALSE
            /\ UNCHANGED <<apiFrame, wire>>
            /\ UNCHANGED rxVars
       ELSE \E out \in {ApiFrame(data)} :
            /\ apiFrame' = out
            /\ txResult' = write(out, IF accepted THEN Size(out) ELSE -1)
            /\ wire' = Append(wire, [frame |-> out, taken |-> IF accepted THEN Size(out) ELSE -1])
            /\ printed' = Append(printed, [kind |-> "TX", text |-> data])
            /\ UNCHANGED <<m_dataBuffer, m_payloadCsv, m_containerCsv, stream, routed,
                           unconsumed, purgedAt, garbageChunks, csvFiles, sockIn, sentData>>

\* the commands handed to sendData: strings of at most MaxCommand
\* characters over 'C' and U+00E9, the empty string, the command
\* CMD,1026,SIM,ENABLE; and two long runs of 'z'
CommandAlphabet == {67, 233}

LongCommands == {<<[b |-> 122, n |-> 600]>>, <<[b |-> 122, n |-> 70000]>>}

\* "CMD,1026,SIM,ENABLE;"
CmdSimEnable ==
    Bytes(<<67, 77, 68, 44, 49, 48, 50, 54, 44, 83, 73, 77, 44, 69, 78, 65, 66, 76, 69, 59>>)

TxInputs ==
    UNION {{Bytes(q) : q \in [1..n -> CommandAlphabet]} : n \in 0..MaxCommand}
    \cup LongCommands \cup {CmdSimEnable}

Send == \E data \in TxInputs : \E accepted \in BOOLEAN : sendData(data, accepted)

---------------------------------------------------------------------------
(* Simulation feeder and mode commands of CanSat::ControlPanel *)

\* The state a handler works on: the members of the control panel and of
\* the transport that the feeder handlers read and write.
Cur ==
    [enabled |-> m_simulationEnabled, activated |-> m_simulationActivated,
     telemetry |-> m_containerTelemetryEnabled, row |-> m_row, csv |-> m_csvData,
     file |-> m_file, timers |-> timers, printed |-> printed, apiFrame |-> apiFrame,
     txData |-> txData, txResult |-> txResult, txCount |-> txCount, wire |-> wire,
     boxes |-> messageBoxes]

\* the state st becomes the next state
Commit(st) ==
    /\ m_simulationEnabled' = st.enabled
    /\ m_simulationActivated' = st.activated
    /\ m_containerTelemetryEnabled' = st.telemetry
    /\ m_row' = st.row
    /\ m_csvData' = st.csv
    /\ m_file' = st.file
    /\ timers' = st.timers
    /\ printed' = st.printed
    /\ apiFrame' = st.apiFrame
    /\ txData' = st.txData
    /\ txResult' = st.txResult
    /\ txCount' = st.txCount
    /\ wire' = st.wire
    /\ messageBoxes' = st.boxes
    /\ UNCHANGED <<m_dataBuffer, m_payloadCsv, m_containerCsv, stream, routed, unconsumed,
                   purgedAt, garbageChunks, csvFiles, socketState, connecting, sockIn,
                   sentData>>

\* sendData(data) called by a handler working on st
sendDataIn(st, data, accepted) ==
    IF data = <<>> \/ ~isConnected
    THEN [st EXCEPT !.txData = data, !.txResult = FALSE, !.txCount = @ + 1]
    ELSE LET out == ApiFrame(data)
             taken == IF accepted THEN Size(out) ELSE -1
         IN  [st EXCEPT !.txData = data, !.txCount = @ + 1, !.apiFrame = out,
                        !.txResult = write(out, taken),
                        !.wire = Append(@, [frame |-> out, taken |-> taken]),
                        !.printed = Append(@, [kind |-> "TX", text |-> data])]

\* "CMD,1026,SIM,DISABLE;"
CmdSimDisable ==
    Bytes(<<67, 77, 68, 44, 49, 48, 50, 54, 44, 83, 73, 77, 44, 68, 73, 83, 65, 66, 76,
              69, 59>>)

\* "CMD,1026,SIM,ACTIVATE;"
CmdSimActivate ==
    Bytes(<<67, 77, 68, 44, 49, 48, 50, 54, 44, 83, 73, 77, 44, 65, 67, 84, 73, 86, 65,
              84, 69, 59>>)

\* "CMD,1026,CX,ON;"
CmdTelemetryOn ==
    Bytes(<<67, 77, 68, 44, 49, 48, 50, 54, 44, 67, 88, 44, 79, 78, 59>>)

\* "CMD,1026,CX,OFF;"
CmdTelemetryOff ==
    Bytes(<<67, 77, 68, 44, 49, 48, 50, 54, 44, 67, 88, 44, 79, 70, 70, 59>>)

\* "CMD,1026,ST,12:00:00;", the command of updateContainerTime at noon
CmdSetTime ==
    Bytes(<<67, 77, 68, 44, 49, 48, 50, 54, 44, 83, 84, 44, 49, 50, 58, 48, 48, 58, 48,
              48, 59>>)

\* "CMD,1026,SIMP,"
CmdSimpPrefix ==
    Bytes(<<67, 77, 68, 44, 49, 48, 50, 54, 44, 83, 73, 77, 80, 44>>)

\* tr("No CSV file selected")
NoCsvSelected ==
    Bytes(<<78, 111, 32, 67, 83, 86, 32, 102, 105, 108, 101, 32, 115, 101, 108, 101, 99,
              116, 101, 100>>)

\* the name of a loaded file, "pressure.csv"
LoadedFileName ==
    Bytes(<<112, 114, 101, 115, 115, 117, 114, 101, 46, 99, 115, 118>>)

\* "CC2022_temp.csv", the name of the temporary file
TempFileName ==
    Bytes(<<67, 67, 50, 48, 50, 50, 95, 116, 101, 109, 112, 46, 99, 115, 118>>)

\* simulationEnabled()
simulationEnabled(st) == st.enabled

\* simulationActivated()
simulationActivated(st) == simulationEnabled(st) /\ st.activated

\* simulationCsvLoaded()
simulationCsvLoaded(st) == st.file

\* csvFileName()
csvFileName(st) == IF simulationCsvLoaded(st) THEN LoadedFileName ELSE NoCsvSelected

\* the delays of the two QTimer::singleShot calls, in seconds
StartDelay == 5
RowDelay == 1

\* updateContainerTime()
updateContainerTime(st, accepted) ==
    IF isConnected THEN sendDataIn(st, CmdSetTime, accepted) ELSE st

\* a setSimulationMode that leaves the activated flag as it is
setSimulationMode_keepActivated(st, enabled, accepted) ==
    IF isConnected
    THEN sendDataIn([st EXCEPT !.enabled = enabled],
                    IF enabled THEN CmdSimEnable ELSE CmdSimDisable, accepted)
    ELSE st

\* setSimulationMode(enabled)
setSimulationMode(st, enabled, accepted) ==
    IF isConnected
    THEN LET s1 == [st EXCEPT !.activated = FALSE, !.enabled = enabled]
         IN  sendDataIn(s1, IF simulationEnabled(s1) THEN CmdSimEnable ELSE CmdSimDisable,
                        accepted)
    ELSE st

\* a setSimulationActivated whose deactivation only clears the flag
setSimulationActivated_onlyFlag(st, activated, accepted) ==
    IF isConnected /\ st.enabled
    THEN IF activated
         THEN LET s1 == sendDataIn([st EXCEPT !.activated = TRUE], CmdSimActivate, accepted)
              IN  [s1 EXCEPT !.printed = Append(@, [kind |-> "INFO", text |-> <<>>]),
                             !.timers = Append(@, StartDelay)]
         ELSE [st EXCEPT !.activated = FALSE]
    ELSE st

\* setSimulationActivated(activated)
setSimulationActivated(st, activated, accepted) ==
    IF isConnected /\ simulationEnabled(st)
    THEN IF activated /\ csvFileName(st) # <<>>
         THEN LET s1 == sendDataIn([st EXCEPT !.activated = TRUE], CmdSimActivate, accepted)
              IN  [s1 EXCEPT !.printed = Append(@, [kind |-> "INFO", text |-> <<>>]),
                             !.timers = Append(@, StartDelay)]
         ELSE setSimulationMode(st, FALSE, accepted)
    ELSE st

\* a setContainerTelemetryEnabled that does not look at the connection
setContainerTelemetryEnabled_ungated(st, enabled, accepted) ==
    sendDataIn([st EXCEPT !.telemetry = enabled],
               IF enabled THEN CmdTelemetryOn ELSE CmdTelemetryOff, accepted)

\* setContainerTelemetryEnabled(enabled)
setContainerTelemetryEnabled(st, enabled, accepted) ==
    IF isConnected
    THEN sendDataIn([st EXCEPT !.telemetry = enabled],
                    IF enabled THEN CmdTelemetryOn ELSE CmdTelemetryOff, accepted)
    ELSE st

\* QString::replace(" ", ""): s without the bytes b
RECURSIVE RemoveByte(_, _, _)
RemoveByte(s, b, i) ==
    IF i = 0 THEN <<>>
    ELSE IF s[i].b = b THEN RemoveByte(s, b, i - 1)
         ELSE AppendRun(RemoveByte(s, b, i - 1), s[i].b, s[i].n)

\* out followed by n copies of t
RECURSIVE CatTimes(_, _, _)
CatTimes(out, t, n) == IF n = 0 THEN out ELSE Cat(CatTimes(out, t, n - 1), t)

\* a replace that drops the byte b
ReplaceByte_drop(s, b, t, i) == RemoveByte(s, b, i)

\* QString::replace("$", "1026"): every byte b of s replaced by the bytes of t
RECURSIVE ReplaceByte(_, _, _, _)
ReplaceByte(s, b, t, i) ==
    IF i = 0 THEN <<>>
    ELSE IF s[i].b = b THEN CatTimes(ReplaceByte(s, b, t, i - 1), t, s[i].n)
         ELSE AppendRun(ReplaceByte(s, b, t, i - 1), s[i].b, s[i].n)

\* the fields of the first i runs of line, separated by the byte sep
RECURSIVE Split(_, _, _)
Split(line, sep, i) ==
    IF i = 0 THEN <<(<<>>)>>
    ELSE LET fields == Split(line, sep, i - 1)
         IN  IF line[i].b = sep
             THEN fields \o [k \in 1..line[i].n |-> <<>>]
             ELSE [fields EXCEPT ![Len(fields)] = AppendRun(@, line[i].b, line[i].n)]

\* the while loop of openCsv and QtCSV::Reader::readToList: spaces removed,
\* lines that are empty or start with '#' dropped, '$' replaced by 1026, and
\* each remaining line split at its commas
RECURSIVE ReadCsv(_, _)
ReadCsv(lines, i) ==
    IF i = 0 THEN <<>>
    ELSE LET line == RemoveByte(lines[i], 32, Len(lines[i]))
         IN  IF line = <<>> \/ ByteAt(line, 0) = 35 THEN ReadCsv(lines, i - 1)
             ELSE LET text == ReplaceByte(line, 36, TagContainer, Len(line))
                  IN  Append(ReadCsv(lines, i - 1), Split(text, 44, Len(text)))

\* an openCsv that drops the dataset when the selected file does not open
openCsv_reset(st, name, lines, opened, tempOpened, accepted) ==
    IF name = <<>> THEN st
    ELSE IF ~opened
    THEN [st EXCEPT !.file = FALSE, !.row = 0, !.csv = <<>>,
                    !.boxes = Append(@, "File open error")]
    ELSE LET s1 == [st EXCEPT !.file = TRUE]
             s2 == IF simulationActivated(s1) THEN setSimulationActivated(s1, FALSE, accepted)
                   ELSE s1
             s3 == IF tempOpened
                   THEN [s2 EXCEPT !.row = 1, !.csv = ReadCsv(lines, Len(lines))]
                   ELSE s2
         IN  [s3 EXCEPT !.printed = @ \o <<[kind |-> "INFO", text |-> name],
                                            [kind |-> "INFO", text |-> TempFileName]>>]

\* openCsv(): name is the file chosen in the dialog (empty when the dialog
\* is cancelled), lines its lines, opened the outcome of m_file.open, and
\* tempOpened the outcome of opening the temporary file
openCsv(st, name, lines, opened, tempOpened, accepted) ==
    IF name = <<>> THEN st
    ELSE IF ~opened THEN [st EXCEPT !.file = FALSE, !.boxes = Append(@, "File open error")]
    ELSE LET s1 == [st EXCEPT !.file = TRUE]
             s2 == IF simulationActivated(s1) THEN setSimulationActivated(s1, FALSE, accepted)
                   ELSE s1
             s3 == IF tempOpened
                   THEN [s2 EXCEPT !.row = 1, !.csv = ReadCsv(lines, Len(lines))]
                   ELSE s2
         IN  [s3 EXCEPT !.printed = @ \o <<[kind |-> "INFO", text |-> name],
                                            [kind |-> "INFO", text |-> TempFileName]>>]

\* a sendSimulatedData that ends the run without the completion box
sendSimulatedData_silent(st, accepted) ==
    IF ~simulationActivated(st) \/ ~isConnected THEN st
    ELSE IF st.row < Len(st.csv) /\ st.row >= 0
    THEN LET row == st.csv[st.row + 1]
             cmd == AppendRun(Cat(CmdSimpPrefix, row[1]), 59, 1)
         IN  [sendDataIn(st, cmd, accepted) EXCEPT !.row = @ + 1,
                                                   !.timers = Append(@, RowDelay)]
    ELSE setSimulationActivated(st, FALSE, accepted)

\* a sendSimulatedData that keeps the cursor when the write is refused
sendSimulatedData_retry(st, accepted) ==
    IF ~simulationActivated(st) \/ ~isConnected THEN st
    ELSE IF st.row < Len(st.csv) /\ st.row >= 0
    THEN LET row == st.csv[st.row + 1]
             cmd == AppendRun(Cat(CmdSimpPrefix, row[1]), 59, 1)
         IN  [sendDataIn(st, cmd, accepted) EXCEPT !.row = IF accepted THEN @ + 1 ELSE @,
                                                   !.timers = Append(@, RowDelay)]
    ELSE [setSimulationActivated(st, FALSE, accepted)
             EXCEPT !.boxes = Append(@, "Pressure simulation finished")]

\* sendSimulatedData(), the slot of the single-shot timers
sendSimulatedData(st, accepted) ==
    IF ~simulationActivated(st) \/ ~isConnected THEN st
    ELSE IF st.row < Len(st.csv) /\ st.row >= 0
    THEN LET row == st.csv[st.row + 1]
             cmd == AppendRun(Cat(CmdSimpPrefix, row[1]), 59, 1)
             s1 == IF cmd # <<>> THEN sendDataIn(st, cmd, accepted)
                   ELSE [st EXCEPT !.boxes = Append(@, "Simulation CSV error")]
         IN  [s1 EXCEPT !.row = @ + 1, !.timers = Append(@, RowDelay)]
    ELSE [setSimulationActivated(st, FALSE, accepted)
             EXCEPT !.boxes = Append(@, "Pressure simulation finished")]

\* s without its i-th element
RemoveAt(s, i) == SubSeq(s, 1, i - 1) \o SubSeq(s, i + 1, Len(s))

\* the flags of the pending timers after a handler that started with the
\* timers flagged old and ended in st: a timer pending across a step that
\* takes the feeder out of ACTIVE is cancelled, and a timer scheduled by the
\* step is flagged start iff the step is an activation
Track(old, st, start) ==
    [i \in 1..Len(st.timers) |->
        IF i <= Len(old)
        THEN [old[i] EXCEPT !.cancelled = @ \/ (simulationActivated(Cur)
                                                  /\ ~simulationActivated(st))]
        ELSE [start |-> start, cancelled |-> FALSE]]

\* the bounds on the commands transmitted, on the datasets loaded, on the
\* pending timers and on the failed loads
Within(st) ==
    /\ Len(SelectSeq(st.boxes, LAMBDA t : t = "File open error")) <= MaxOpenErrors
    /\ Len(SelectSeq(st.printed, LAMBDA e : e.kind = "TX")) <= MaxCommands
    /\ Len(SelectSeq(st.printed, LAMBDA e : e = [kind |-> "INFO", text |-> TempFileName]))
           <= MaxLoads
    /\ Len(st.timers) <= MaxTimers

\* the lines "#comment", "", "$,12.5" and "30.2"
CsvExample ==
    <<Bytes(<<35, 99, 111, 109, 109, 101, 110, 116>>),
      <<>>,
      Bytes(<<36, 44, 49, 50, 46, 53>>),
      Bytes(<<51, 48, 46, 50>>)>>

\* the lines "7", "8 ,1" and "9"
CsvThreeRows == <<Bytes(<<55>>), Bytes(<<56, 32, 44, 49>>), Bytes(<<57>>)>>

\* the files the dialog can return: a file of one comment line, the example
\* and a file of three rows
CsvFilesOnDisk == {<<CsvExample[1]>>, CsvExample, CsvThreeRows}

\* the outcomes of m_socket.write() that a handler can meet: none is
\* consulted while the transport is not connected, and at most MaxRefused
\* writes of a run are refused
Accepts ==
    IF isConnected /\ Cardinality({i \in 1..Len(wire) : wire[i].taken = -1}) < MaxRefused
    THEN BOOLEAN ELSE {TRUE}

\* the outcomes of the dialog and of the two QFile::open calls of openCsv:
\* the dialog cancelled, m_file not opened, the temporary file not opened,
\* and all opened
OpenCsvOutcomes ==
    {[name |-> <<>>, opened |-> FALSE, tempOpened |-> FALSE],
     [name |-> LoadedFileName, opened |-> FALSE, tempOpened |-> FALSE],
     [name |-> LoadedFileName, opened |-> TRUE, tempOpened |-> FALSE],
     [name |-> LoadedFileName, opened |-> TRUE, tempOpened |-> TRUE]}

CallSetSimulationMode ==
    \E enabled \in BOOLEAN : \E accepted \in Accepts :
    \E st \in {setSimulationMode(Cur, enabled, accepted)} :
        Within(st) /\ Commit(st) /\ ticks' = Track(ticks, st, FALSE)

CallSetSimulationActivated ==
    \E activated \in BOOLEAN : \E accepted \in Accepts :
    \E st \in {setSimulationActivated(Cur, activated, accepted)} :
        Within(st) /\ Commit(st) /\ ticks' = Track(ticks, st, TRUE)

CallSetContainerTelemetryEnabled ==
    \E enabled \in BOOLEAN : \E accepted \in Accepts :
    \E st \in {setContainerTelemetryEnabled(Cur, enabled, accepted)} :
        Within(st) /\ Commit(st) /\ ticks' = Track(ticks, st, FALSE)

CallUpdateContainerTime ==
    \E accepted \in Accepts :
    \E st \in {updateContainerTime(Cur, accepted)} :
        Within(st) /\ Commit(st) /\ ticks' = Track(ticks, st, FALSE)

CallOpenCsv ==
    \E o \in OpenCsvOutcomes :
    \E lines \in (IF o.tempOpened THEN CsvFilesOnDisk ELSE {<<>>}) :
    \E accepted \in (IF o.opened /\ simulationActivated(Cur) THEN Accepts ELSE {TRUE}) :
    \E st \in {openCsv(Cur, o.name, lines, o.opened, o.tempOpened, accepted)} :
        Within(st) /\ Commit(st) /\ ticks' = Track(ticks, st, FALSE)

\* a single-shot timer that is due fires
Timeout ==
    \E i \in 1..Len(timers) : \E accepted \in Accepts :
        /\ timers[i] = 0
        /\ \E st \in {sendSimulatedData([Cur EXCEPT !.timers = RemoveAt(@, i)], accepted)} :
              Within(st) /\ Commit(st) /\ ticks' = Track(RemoveAt(ticks, i), st, FALSE)

\* one second passes while no timer is due
Elapse ==
    /\ timers # <<>>
    /\ \A i \in 1..Len(timers) : timers[i] > 0
    /\ timers' = [i \in 1..Len(timers) |-> timers[i] - 1]
    /\ UNCHANGED <<m_simulationEnabled, m_simulationActivated, m_containerTelemetryEnabled,
                   m_row, m_csvData, m_file, ticks, messageBoxes>>
    /\ UNCHANGED rxVars
    /\ UNCHANGED txVars

---------------------------------------------------------------------------
(* Inputs of the reassembler *)

\* '/', '*' and 'a'
Alphabet == {SLASH, STAR, 97}

\* every chunk of n literal bytes over the alphabet, n = 1..MaxChunk
LiteralChunks == [n \in 1..MaxChunk |-> {Bytes(q) : q \in [1..n -> Alphabet]}]

\* "noise/*6026,A,B*/moretrailing"
Example ==
    Bytes(<<110, 111, 105, 115, 101, 47, 42, 54, 48, 50, 54, 44, 65, 44, 66, 42, 47,
            109, 111, 114, 101, 116, 114, 97, 105, 108, 105, 110, 103>>)
\* "6026,A,B"
ExampleFrame == Bytes(<<54, 48, 50, 54, 44, 65, 44, 66>>)
\* "moretrailing"
ExampleRest == Bytes(<<109, 111, 114, 101, 116, 114, 97, 105, 108, 105, 110, 103>>)

\* chunks that keep the stream within MaxStream bytes; the example chunk is
\* offered as the first chunk of a run
RxInputs ==
    UNION {LiteralChunks[n] : n \in 1..Min(MaxChunk, MaxStream - Size(stream))}
    \cup (IF stream = <<>> THEN {Example} ELSE {})

Receive == \E data \in RxInputs : onDataReceived(data) /\ UNCHANGED inVars

\* The frame specification delivers whole markers and tags: "/*", "*/",
\* "6026" and "1026", joined into chunks of at most MaxPieces pieces.
Pieces == {Bytes(<<SLASH, STAR>>), Bytes(<<STAR, SLASH>>), TagPayload, TagContainer}

RECURSIVE Join(_, _)
Join(q, i) == IF i > Len(q) THEN <<>> ELSE Cat(q[i], Join(q, i + 1))

PieceChunks == UNION {{Join(q, 1) : q \in [1..n -> Pieces]} : n \in 1..MaxPieces}

\* the chunks of pieces by their size in bytes
PieceChunksOfSize == [k \in 1..(2 * MaxPairs) |-> {c \in PieceChunks : Size(c) = k}]

FrameInputs ==
    UNION {PieceChunksOfSize[k] : k \in 1..(2 * MaxPairs - Size(stream))}
    \cup (IF stream = <<>> THEN {Example} ELSE {})

ReceiveFrames == \E data \in FrameInputs : onDataReceived(data) /\ UNCHANGED inVars

\* The overflow specification delivers "/*", "*/" and "a" one piece per
\* event, and garbage chunks.
NoisePieces == {Bytes(<<SLASH, STAR>>), Bytes(<<STAR, SLASH>>), Bytes(<<97>>)}

\* the number of bytes of s that are not filler bytes
RECURSIVE LiteralSize(_)
LiteralSize(s) ==
    IF s = <<>> THEN 0
    ELSE (IF Head(s).b = 120 THEN 0 ELSE Head(s).n) + LiteralSize(Tail(s))

OverflowInputs ==
    {c \in NoisePieces : LiteralSize(stream) + Size(c) <= MaxNoise}
    \cup (IF garbageChunks < MaxGarbage THEN {Garbage(n) : n \in GarbageSizes} ELSE {})

ReceiveNoise == \E data \in OverflowInputs : onDataReceived(data) /\ UNCHANGED inVars

\* The router specification delivers whole delimited frames: "/*6026*/",
\* "/*1026*/", "/*a6026*/" (the tag not at the start), "/*6026,A,B*/" and
\* the empty "/**/", at most MaxPerEvent of them per event.
Delimited(frame) == Cat(Cat(Bytes(<<SLASH, STAR>>), frame), Bytes(<<STAR, SLASH>>))

TaggedFrames ==
    {Delimited(TagPayload), Delimited(TagContainer), Delimited(Cat(Bytes(<<97>>), TagPayload)),
     Delimited(ExampleFrame), Delimited(<<>>)}

FrameChunks ==
    [n \in 1..MaxPerEvent |-> {Join(q, 1) : q \in [1..n -> TaggedFrames]}]

RouterInputs ==
    UNION {FrameChunks[n] : n \in 1..Min(MaxPerEvent, MaxFrames - Len(routed))}

ReceiveTagged == \E data \in RouterInputs : onDataReceived(data) /\ UNCHANGED inVars

---------------------------------------------------------------------------
Init ==
    /\ m_dataBuffer = <<>>
    /\ m_payloadCsv = ClosedFile
    /\ m_containerCsv = ClosedFile
    /\ printed = <<>>
    /\ stream = <<>>
    /\ routed = <<>>
    /\ unconsumed = 0
    /\ purgedAt = 0
    /\ garbageChunks = 0
    /\ csvFiles = <<>>
    /\ socketState = "UnconnectedState"
    /\ apiFrame = <<>>
    /\ txData = <<>>
    /\ txResult = FALSE
    /\ txCount = 0
    /\ wire = <<>>
    /\ m_simulationEnabled = FALSE
    /\ m_simulationActivated = FALSE
    /\ m_containerTelemetryEnabled = FALSE
    /\ m_row = 0
    /\ m_csvData = <<>>
    /\ m_file = FALSE
    /\ timers = <<>>
    /\ ticks = <<>>
    /\ messageBoxes = <<>>
    /\ connecting = 0
    /\ sockIn = <<>>
    /\ sentData = <<>>

Next == Receive

Spec == Init /\ [][Next]_vars

NextFrames == ReceiveFrames

SpecFrames == Init /\ [][NextFrames]_vars

NextOverflow == ReceiveNoise

SpecOverflow == Init /\ [][NextOverflow]_vars

NextRouter == ReceiveTagged

SpecRouter == Init /\ [][NextRouter]_vars

NextFeeder ==
    \/ tryConnection
    \/ SocketConnected
    \/ SocketClosed
    \/ CallSetSimulationMode
    \/ CallSetSimulationActivated
    \/ CallOpenCsv
    \/ Timeout
    \/ Elapse

SpecFeeder == Init /\ [][NextFeeder]_vars

\* the bounds of a run of the send loop: the commands transmitted, the
\* datasets loaded and the pending timers
WithinRun(st) ==
    /\ Len(SelectSeq(st.printed, LAMBDA e : e.kind = "TX")) <= MaxRunCommands
    /\ Len(SelectSeq(st.printed, LAMBDA e : e = [kind |-> "INFO", text |-> TempFileName]))
           <= MaxLoads
    /\ Len(st.timers) <= MaxTimers

\* the handlers of a run of the send loop, every write taken by the socket
\* and every file opened
RunSetSimulationMode ==
    \E enabled \in BOOLEAN : \E st \in {setSimulationMode(Cur, enabled, TRUE)} :
        WithinRun(st) /\ Commit(st) /\ ticks' = Track(ticks, st, FALSE)

RunSetSimulationActivated ==
    \E activated \in BOOLEAN : \E st \in {setSimulationActivated(Cur, activated, TRUE)} :
        WithinRun(st) /\ Commit(st) /\ ticks' = Track(ticks, st, TRUE)

RunOpenCsv ==
    \E st \in {openCsv(Cur, LoadedFileName, CsvThreeRows, TRUE, TRUE, TRUE)} :
        WithinRun(st) /\ Commit(st) /\ ticks' = Track(ticks, st, FALSE)

RunTimeout ==
    \E i \in 1..Len(timers) :
        /\ timers[i] = 0
        /\ \E st \in {sendSimulatedData([Cur EXCEPT !.timers = RemoveAt(@, i)], TRUE)} :
              WithinRun(st) /\ Commit(st) /\ ticks' = Track(RemoveAt(ticks, i), st, FALSE)

NextRun ==
    \/ tryConnection
    \/ SocketConnected
    \/ RunSetSimulationMode
    \/ RunSetSimulationActivated
    \/ RunOpenCsv
    \/ RunTimeout
    \/ Elapse

SpecRun == Init /\ [][NextRun]_vars

\* The liveness specification: at most MaxLiveCommands commands of the
\* user, one dataset, connects and disconnects at any time; a pending
\* single-shot timer counts down and fires (the Qt event loop delivers every
\* timer that is due).
NextLive ==
    \/ tryConnection
    \/ SocketConnected
    \/ SocketClosed
    \/ txCount < MaxLiveCommands /\ RunSetSimulationMode
    \/ txCount < MaxLiveCommands /\ RunSetSimulationActivated
    \/ RunOpenCsv
    \/ RunTimeout
    \/ Elapse

\* what the firing of a due single-shot timer does to the pending timers:
\* the timer leaves them, and sendSimulatedData may schedule the next tick
TimerFires ==
    \E i \in 1..Len(timers) :
        /\ timers[i] = 0
        /\ timers' \in {RemoveAt(timers, i), Append(RemoveAt(timers, i), RowDelay)}

SpecLive ==
    Init /\ [][NextLive]_vars /\ WF_timers(Elapse) /\ WF_timers(TimerFires)

\* The load specification: datasets are loaded in every feeder and
\* connection state that two mode commands reach.
NextLoad ==
    \/ tryConnection
    \/ SocketConnected
    \/ SocketClosed
    \/ Len(printed) <= MaxModePrinted /\ CallSetSimulationMode
    \/ Len(printed) <= MaxModePrinted /\ CallSetSimulationActivated
    \/ CallOpenCsv

SpecLoad == Init /\ [][NextLoad]_vars

NextModes ==
    \/ tryConnection
    \/ SocketConnected
    \/ SocketClosed
    \/ Len(printed) <= MaxModePrinted /\ CallSetSimulationMode
    \/ Len(printed) <= MaxModePrinted /\ CallSetSimulationActivated
    \/ Len(printed) <= MaxModePrinted /\ CallSetContainerTelemetryEnabled
    \/ Len(printed) <= MaxModePrinted /\ CallUpdateContainerTime

SpecModes == Init /\ [][NextModes]_vars

\* The transport specification: the companion sends messages, and the
\* socket signals readyRead for any number of the bytes that have arrived.
NextTransport == CompanionSends \/ PluginOnDataReceived

SpecTransport == Init /\ [][NextTransport]_vars

NextTx == tryConnection \/ SocketConnected \/ SocketClosed \/ Send

SpecTx == Init /\ [][NextTx]_vars

---------------------------------------------------------------------------
(* Properties of the stream reassembler *)

\* the frames of the processFrame calls in recs that carry at least one byte
NonEmptyFrames(recs) ==
    LET kept == SelectSeq(recs, LAMBDA r : r.frame # <<>>)
    IN  [i \in 1..Len(kept) |-> kept[i].frame]

\* the processFrame calls in recs whose frame was closed by a finish sequence
Closed(recs) == SelectSeq(recs, LAMBDA r : r.end >= 0)

\* the frames the loop hands to processFrame when s arrives as one chunk in
\* an empty buffer
OneChunk(s) == ReadFrames(s, 0, Size(s), <<>>).frames

\* C1: chunk invariance. Whatever the chunks the stream arrived in (total
\* size within the overflow ceiling), the non-empty frames handed to
\* processFrame so far are those handed over when the same bytes arrive as
\* one single chunk in an empty buffer.
C1_ChunkInvariance ==
    Size(stream) <= BufferLimit => NonEmptyFrames(routed) = NonEmptyFrames(OneChunk(stream))

\* the bytes handed to onDataReceived by the step
StepData == DropBytes(stream', Size(stream))
\* the processFrame calls made by the step
StepFrames == SubSeq(routed', Len(routed) + 1, Len(routed'))

\* C2: after a receive event that extracted at least one frame and did not
\* clear the buffer, the buffer holds exactly the bytes of the stream that
\* follow the last consumed finish sequence.
C2_TrailingBytesKept ==
    [][ LET closed == Closed(StepFrames)
        IN  (closed # <<>> /\ unconsumed' <= BufferLimit)
                => m_dataBuffer' = DropBytes(stream', closed[Len(closed)].end + 2) ]_vars

\* The reference scan of C3: the first start sequence, then the first finish
\* sequence after it, the bytes strictly between them, and on after that
\* finish sequence.
RECURSIVE RefScan(_)
RefScan(s) ==
    LET i == IndexOf(s, SLASH, STAR)
        r == DropBytes(s, i + 2)
        j == IndexOf(r, STAR, SLASH)
    IN  IF i < 0 \/ j < 0 THEN <<>>
        ELSE <<TakeBytes(r, j)>> \o RefScan(DropBytes(r, j + 2))

\* C3: a receive event on an empty buffer hands to processFrame exactly the
\* non-empty frames of the reference left-to-right scan of its chunk.
C3_ReferenceScan ==
    [][ m_dataBuffer = <<>>
            => NonEmptyFrames(StepFrames) = SelectSeq(RefScan(StepData), LAMBDA f : f # <<>>) ]_vars

\* "6026,A,B\n"
ExampleLine == AppendRun(ExampleFrame, NEWLINE, 1)

\* C4: when the bytes noise/*6026,A,B*/moretrailing are the first chunk,
\* processFrame is called once, with 6026,A,B; the frame goes to the payload
\* log (the log, once created, holds that one line), the container log is
\* not touched, and the buffer holds moretrailing.
C4_Example ==
    stream = Example =>
        /\ Len(routed) = 1
        /\ routed[1].frame = ExampleFrame
        /\ m_dataBuffer = ExampleRest
        /\ m_containerCsv = ClosedFile
        /\ m_payloadCsv.data = (IF m_payloadCsv.isOpen THEN ExampleLine ELSE <<>>)
        /\ m_payloadCsv.isOpen =>
              printed[Len(printed)] = [kind |-> "RX", text |-> ExampleFrame]

C4_Witness ==
    /\ stream = Example
    /\ m_payloadCsv = [isOpen |-> TRUE, data |-> ExampleLine]
    /\ m_dataBuffer = ExampleRest

\* C5: the frames handed to processFrame are in the order of their finish
\* sequences in the inbound stream: of two frames, the one routed first has
\* its finish sequence at the smaller stream position.
C5_RoutedInStreamOrder ==
    \A i, j \in 1..Len(routed) :
        (i < j /\ routed[i].end >= 0 /\ routed[j].end >= 0) => routed[i].end < routed[j].end

\* two tagged frames were routed, the second one from bytes that arrived
\* after the first one had been routed
C5_Witness ==
    \E i, j \in 1..Len(routed) :
        /\ i < j
        /\ StartsWith(routed[i].frame, TagPayload)
        /\ StartsWith(routed[j].frame, TagContainer)
        /\ routed[i].end >= 0
        /\ routed[j].end > routed[i].end
        /\ m_payloadCsv.isOpen /\ m_containerCsv.isOpen

---------------------------------------------------------------------------
(* Properties of the overflow protection *)

\* C6 as stated: a buffer left with more than 10,240 unconsumed bytes is
\* empty when the handler returns, and no byte received before that appears
\* in a frame routed later.
C6_PurgeAbove10240 ==
    [][ /\ unconsumed' > 10240 => m_dataBuffer' = <<>>
        /\ \A i \in 1..Len(StepFrames) :
              StepFrames[i].frame # <<>> => StepFrames[i].at >= purgedAt ]_vars

\* C6 amended: a buffer left with more than 102,400 unconsumed bytes is
\* empty when the handler returns, and every frame routed later lies in the
\* part of the stream received after that event.
C6_PurgeAboveLimit ==
    [][ /\ unconsumed' > 102400 => m_dataBuffer' = <<>>
        /\ \A i \in 1..Len(StepFrames) :
              StepFrames[i].frame # <<>> => StepFrames[i].at >= purgedAt ]_vars

\* the buffer was cleared by an event, and a frame was routed afterwards
C6_Witness ==
    /\ purgedAt > 102400
    /\ \E i \in 1..Len(routed) : routed[i].frame # <<>> /\ routed[i].at >= purgedAt

\* C7: whenever onDataReceived has returned, the buffer holds at most
\* 102,400 bytes.
C7_BufferBounded == Size(m_dataBuffer) <= 102400

\* more than 102,400 bytes were received, an event left more than that
\* unconsumed, and the buffer is within the bound
C7_Witness ==
    /\ Size(stream) > 102400
    /\ unconsumed > 102400
    /\ Size(m_dataBuffer) <= 102400

---------------------------------------------------------------------------
(* Properties of the frame encoder *)

\* the bytes of the last written frame between the length field and the
\* checksum byte
WrittenPayload == TakeBytes(DropBytes(apiFrame, 3), Size(apiFrame) - 4)

\* the sum of the bytes of s, without any wrap
RECURSIVE PlainSum(_, _)
PlainSum(s, i) == IF i = 0 THEN 0 ELSE PlainSum(s, i - 1) + s[i].b * s[i].n

\* the number held by the two bytes that follow the start byte
LengthField == ByteAt(apiFrame, 1) * 256 + ByteAt(apiFrame, 2)

\* the command of the last frame handed to Plugin::write
WrittenCommand == printed[Len(printed)].text

\* C8 as stated: the last byte of a written frame is 0xFF minus the sum,
\* modulo 256, of the payload bytes of that written frame.
C8_ChecksumOfWrittenPayload ==
    apiFrame # <<>> =>
        ByteAt(apiFrame, Size(apiFrame) - 1)
            = 255 - (PlainSum(WrittenPayload, Len(WrittenPayload)) % 256)

\* C8 amended: the written payload carries 0x7D 0x33 at its offsets 3 and
\* 4, and the last byte of the frame is 0xFF minus the sum, modulo 256, of
\* the payload with these two bytes counted as 0x00 and 0x13, the sum taken
\* without any wrap.
C8_ChecksumBeforeSubstitution ==
    apiFrame # <<>> =>
        \A payload \in {WrittenPayload} :
            /\ ByteAt(payload, 3) = 125
            /\ ByteAt(payload, 4) = 51
            /\ ByteAt(apiFrame, Size(apiFrame) - 1)
                 = 255 - ((PlainSum(payload, Len(payload)) - 125 - 51 + 0 + 19) % 256)

\* a frame was written whose payload bytes sum to more than a 16-bit
\* accumulator holds
C8_Witness ==
    /\ apiFrame # <<>>
    /\ PlainSum(WrittenPayload, Len(WrittenPayload)) > 65535

\* C9 as stated: the two bytes after the start byte are the big-endian
\* 16-bit encoding of the number of bytes between the length field and the
\* checksum byte.
C9_LengthOfWrittenPayload ==
    apiFrame # <<>> =>
        /\ ByteAt(apiFrame, 0) = 126
        /\ LengthField = Size(WrittenPayload)

\* C9 amended: the two bytes after the start byte are the big-endian
\* 16-bit encoding of the number of payload bytes minus one, modulo 65,536.
C9_LengthMinusOne ==
    apiFrame # <<>> =>
        \A payload \in {WrittenPayload} :
            /\ ByteAt(apiFrame, 0) = 126
            /\ LengthField = (Size(payload) - 1) % 65536

\* a frame was written whose payload is longer than 16 bits can count, and
\* the length field holds the wrapped value
C9_Witness ==
    /\ apiFrame # <<>>
    /\ Size(WrittenPayload) > 65536
    /\ LengthField = Size(WrittenPayload) - 1 - 65536

\* frame-type, frame-id, the 8-byte address, the 2-byte address, the
\* broadcast radius and the options, as C10 lists them
ListedHeader ==
    Cat(Cat(Bytes(<<16, 0>>), Bytes(<<0, 19, 162, 0, 65, 177, 140, 141>>)),
        Bytes(<<255, 254, 0, 0>>))

\* the fifteen bytes the written payload starts with
WrittenHeader == Bytes(<<16, 0, 0, 125, 51, 162, 0, 65, 177, 140, 141, 255, 254, 0, 0>>)

\* C10 as stated: a written frame is 0x7E, two length bytes, the fourteen
\* header bytes of the list, the UTF-8 bytes of the command and one
\* checksum byte, and nothing else.
C10_ListedLayout ==
    apiFrame # <<>> =>
        /\ ByteAt(apiFrame, 0) = 126
        /\ Size(apiFrame) = 3 + Size(ListedHeader) + Size(toUtf8(WrittenCommand)) + 1
        /\ DropBytes(WrittenPayload, Size(ListedHeader)) = toUtf8(WrittenCommand)

\* C10 amended: a written frame is 0x7E, two length bytes, the fifteen
\* bytes 10 00 00 7D 33 A2 00 41 B1 8C 8D FF FE 00 00, the UTF-8 bytes of
\* the command unmodified and in order, and one checksum byte as the last
\* byte; no other bytes are present.
C10_WrittenLayout ==
    apiFrame # <<>> =>
        \A payload \in {WrittenPayload} : \A command \in {toUtf8(WrittenCommand)} :
            /\ ByteAt(apiFrame, 0) = 126
            /\ Size(apiFrame) = 3 + 15 + Size(command) + 1
            /\ TakeBytes(payload, 15) = WrittenHeader
            /\ DropBytes(payload, 15) = command

\* the frame of a command with a character outside ASCII was written: the
\* command "C" followed by U+00E9 travels as 43 C3 A9
C10_Witness ==
    /\ apiFrame # <<>>
    /\ WrittenCommand = <<[b |-> 67, n |-> 1], [b |-> 233, n |-> 1]>>
    /\ Size(apiFrame) = 22
    /\ DropBytes(WrittenPayload, 15) = Bytes(<<67, 195, 169>>)
    /\ txResult

\* C11: a sendData call with an empty command, or made while the transport
\* is not connected, returns false and hands nothing to the transport; every
\* other call hands exactly one frame to the transport and returns true iff
\* the transport took all of its bytes.
C11_SendOutcome ==
    [][ txCount' = txCount + 1 =>
          IF txData' = <<>> \/ ~isConnected
          THEN ~txResult' /\ wire' = wire
          ELSE /\ Len(wire') = Len(wire) + 1
               /\ SubSeq(wire', 1, Len(wire)) = wire
               /\ wire'[Len(wire')].frame = apiFrame'
               /\ txResult' <=> (wire'[Len(wire')].taken = Size(wire'[Len(wire')].frame)) ]_vars

\* one call was refused and one frame was written, which the transport did
\* not take
C11_Witness ==
    /\ txCount = 2
    /\ Len(wire) = 1
    /\ wire[1].taken = -1
    /\ ~txResult
    /\ txData # <<>>
    /\ isConnected

---------------------------------------------------------------------------
(* Properties of the frame router *)

\* the texts of the "[RX]" display events, in order
RxTexts ==
    LET rx == SelectSeq(printed, LAMBDA e : e.kind = "RX")
    IN  [i \in 1..Len(rx) |-> rx[i].text]

\* C12: every non-empty frame handed to processFrame has produced exactly
\* one display event carrying its text, in routing order, whatever its tag
\* and whatever the outcome of the log creation.
C12_EveryFrameDisplayed == RxTexts = NonEmptyFrames(routed)

\* the createCsv calls in files that opened the container log (c = TRUE) or
\* the payload log (c = FALSE)
Opened(files, c) == {i \in 1..Len(files) : files[i].container = c /\ files[i].opened}

\* the createCsv calls made by the step
StepFiles == SubSeq(csvFiles', Len(csvFiles) + 1, Len(csvFiles'))

\* what C13 says of one log across a step: file and file2 are the log before
\* and after the step, c tells the container log from the payload log
OneLog(file, file2, c, tag) ==
    /\ Cardinality(Opened(csvFiles', c)) <= 1
    /\ file.isOpen => /\ file2.isOpen
                      /\ TakeBytes(file2.data, Size(file.data)) = file.data
    /\ \A i \in 1..Len(StepFiles) :
          StepFiles[i].container = c =>
              /\ ~file.isOpen
              /\ \E k \in 1..Len(StepFrames) : StartsWith(StepFrames[k].frame, tag)
              /\ \A j \in 1..(i - 1) : StepFiles[j].container = c => ~StepFiles[j].opened

\* C13: at most one payload log and at most one container log are ever
\* created. A log is created only for a frame of its tag that arrives while
\* the log is not open; an open log stays open and only grows at its end; the
\* two logs are created by separate createCsv calls.
C13_OneLogPerTag ==
    [][ /\ OneLog(m_payloadCsv, m_payloadCsv', FALSE, TagPayload)
        /\ OneLog(m_containerCsv, m_containerCsv', TRUE, TagContainer) ]_vars

\* two container frames went to one container log and a payload frame to a
\* second log
C13_Witness ==
    /\ m_containerCsv = [isOpen |-> TRUE,
                         data |-> Cat(AppendRun(TagContainer, NEWLINE, 1),
                                      AppendRun(TagContainer, NEWLINE, 1))]
    /\ m_payloadCsv = [isOpen |-> TRUE, data |-> AppendRun(TagPayload, NEWLINE, 1)]
    /\ Cardinality(Opened(csvFiles, TRUE)) = 1
    /\ Cardinality(Opened(csvFiles, FALSE)) = 1

\* TRUE iff the first four bytes of frame are the four bytes of tag
HasTag(frame, tag) == TakeBytes(frame, 4) = tag

\* the frames of the step's processFrame calls
StepFrameBytes == [i \in 1..Len(StepFrames) |-> StepFrames[i].frame]

\* the frames of fs, each followed by a newline, one after the other
RECURSIVE Lines(_, _)
Lines(fs, i) ==
    IF i = 0 THEN <<>> ELSE AppendRun(Cat(Lines(fs, i - 1), fs[i]), NEWLINE, 1)

\* the display events "[RX]" of the frames fs
RxEvents(fs) == [i \in 1..Len(fs) |-> [kind |-> "RX", text |-> fs[i]]]

\* C14: classification by literal prefix. Frames starting with 6026 reach
\* the payload log only, frames starting with 1026 the container log only;
\* frames with another prefix reach no log and create none, and are
\* reported; empty frames cause no write, no creation and no report.
C14_ClassifiedByPrefix ==
    [][ \A pay \in {SelectSeq(StepFrameBytes, LAMBDA f : HasTag(f, TagPayload))} :
        \A con \in {SelectSeq(StepFrameBytes, LAMBDA f : HasTag(f, TagContainer))} :
            /\ pay = <<>> => m_payloadCsv' = m_payloadCsv
            /\ con = <<>> => m_containerCsv' = m_containerCsv
            /\ m_payloadCsv.isOpen =>
                  m_payloadCsv'.data = Cat(m_payloadCsv.data, Lines(pay, Len(pay)))
            /\ m_containerCsv.isOpen =>
                  m_containerCsv'.data = Cat(m_containerCsv.data, Lines(con, Len(con)))
            /\ (pay = <<>> /\ con = <<>>) =>
                  /\ csvFiles' = csvFiles
                  /\ printed' = printed \o RxEvents(SelectSeq(StepFrameBytes,
                                                              LAMBDA f : f # <<>>)) ]_vars

\* a payload frame, a frame with the tag one byte in, and an empty frame
\* were routed: the payload log holds the one payload line, no container log
\* was asked for, and the frame with the displaced tag was reported
C14_Witness ==
    /\ m_payloadCsv = [isOpen |-> TRUE, data |-> AppendRun(TagPayload, NEWLINE, 1)]
    /\ m_containerCsv = ClosedFile
    /\ \A i \in 1..Len(csvFiles) : ~csvFiles[i].container
    /\ \E i \in 1..Len(routed) : routed[i].frame = <<>>
    /\ \E i \in 1..Len(printed) :
          printed[i] = [kind |-> "RX", text |-> Cat(Bytes(<<97>>), TagPayload)]

\* the routed frames that start with tag, in routing order
RoutedWithTag(tag) ==
    LET all == [i \in 1..Len(routed) |-> routed[i].frame]
    IN  SelectSeq(all, LAMBDA f : HasTag(f, tag))

\* TRUE iff no createCsv call for the log (c = TRUE: container) has failed
NoFailedOpen(c) == \A i \in 1..Len(csvFiles) : csvFiles[i].container = c => csvFiles[i].opened

\* C15: while the opens of a log have succeeded, the log holds exactly the
\* routed frames that carry its tag, in routing order, each followed by one
\* newline, and nothing else.
C15_LogContent ==
    /\ NoFailedOpen(FALSE) =>
          m_payloadCsv.data = Lines(RoutedWithTag(TagPayload), Len(RoutedWithTag(TagPayload)))
    /\ NoFailedOpen(TRUE) =>
          m_containerCsv.data
              = Lines(RoutedWithTag(TagContainer), Len(RoutedWithTag(TagContainer)))

\* both logs were opened at the first attempt; the payload log holds the two
\* lines 6026 and 6026,A,B and the container log the line 1026
C15_Witness ==
    /\ Len(csvFiles) = 2
    /\ NoFailedOpen(FALSE) /\ NoFailedOpen(TRUE)
    /\ m_payloadCsv.data = Cat(AppendRun(TagPayload, NEWLINE, 1), ExampleLine)
    /\ m_containerCsv.data = AppendRun(TagContainer, NEWLINE, 1)

\* The effect C16 describes, frame by frame: a tagged frame goes to its log
\* when the log is open; when it is not, the next createCsv call of the step
\* is for that log, and the frame is written iff the call opened it.
\* st.k counts the createCsv calls used; st.ok is FALSE when a call is
\* missing or is for the other log.
RECURSIVE Replay(_, _, _, _)
Replay(fs, files, i, st) ==
    IF i > Len(fs) \/ ~st.ok THEN st
    ELSE LET f == fs[i]
             c == HasTag(f, TagContainer)
             log == IF c THEN st.container ELSE st.payload
             line == AppendRun(f, NEWLINE, 1)
             put(file) == IF c THEN [st EXCEPT !.container = file]
                               ELSE [st EXCEPT !.payload = file]
         IN  IF ~HasTag(f, TagPayload) /\ ~c THEN Replay(fs, files, i + 1, st)
             ELSE IF log.isOpen
             THEN Replay(fs, files, i + 1, put([log EXCEPT !.data = Cat(@, line)]))
             ELSE IF st.k >= Len(files) \/ files[st.k + 1].container # c
             THEN [st EXCEPT !.ok = FALSE]
             ELSE IF files[st.k + 1].opened
             THEN Replay(fs, files, i + 1,
                         [put([isOpen |-> TRUE, data |-> line]) EXCEPT !.k = @ + 1])
             ELSE Replay(fs, files, i + 1, [st EXCEPT !.k = @ + 1])

\* C16: in a receive event in which a log could not be opened, only the
\* frames that met the failed open are dropped: the other frames of the
\* event are written as usual, the other log is as it would be, each further
\* frame of the tag makes its own open attempt, and the chunk is consumed
\* from the buffer as it is when the opens succeed.
C16_OnlyThatFrameDropped ==
    [][ (\E i \in 1..Len(StepFiles) : ~StepFiles[i].opened) =>
          LET r == Replay(StepFrameBytes, StepFiles, 1,
                          [ok |-> TRUE, k |-> 0,
                           payload |-> m_payloadCsv, container |-> m_containerCsv])
          IN  /\ r.ok
              /\ r.k = Len(StepFiles)
              /\ m_payloadCsv' = r.payload
              /\ m_containerCsv' = r.container
              /\ m_dataBuffer' = <<>> ]_vars

\* the first payload frame met a failed open and was dropped; the container
\* frame was written; the next payload frame made a second attempt, which
\* opened the log
C16_Witness ==
    /\ csvFiles = <<[container |-> FALSE, opened |-> FALSE],
                    [container |-> TRUE, opened |-> TRUE],
                    [container |-> FALSE, opened |-> TRUE]>>
    /\ Len(routed) = 3
    /\ routed[1].frame = TagPayload
    /\ m_payloadCsv = [isOpen |-> TRUE, data |-> ExampleLine]
    /\ m_containerCsv = [isOpen |-> TRUE, data |-> AppendRun(TagContainer, NEWLINE, 1)]
    /\ m_dataBuffer = <<>>

---------------------------------------------------------------------------
(* Properties of the simulation feeder *)

\* the three states of the feeder
Disabled == ~m_simulationEnabled
EnabledIdle == m_simulationEnabled /\ ~m_simulationActivated
Active == m_simulationEnabled /\ m_simulationActivated

\* the commands transmitted so far, in order
Transmitted ==
    LET tx == SelectSeq(printed, LAMBDA e : e.kind = "TX")
    IN  [i \in 1..Len(tx) |-> tx[i].text]

\* C17: while the feeder is ENABLED_IDLE and no dataset is loaded, or the
\* loaded dataset is empty, no step makes it ACTIVE.
C17_ActivationRejected ==
    [][ (EnabledIdle /\ (~m_file \/ m_csvData = <<>>))
            => ~(m_simulationEnabled' /\ m_simulationActivated') ]_vars

\* what a handler result st adds to the Plugin::write calls made so far
Written(st) == SubSeq(st.wire, Len(wire) + 1, Len(st.wire))

\* TRUE iff the handler result st has cleared both flags and has handed the
\* one frame of CMD,1026,SIM,DISABLE; to the transport
DisabledBy(st) ==
    /\ ~st.enabled /\ ~st.activated
    /\ Len(Written(st)) = 1
    /\ Written(st)[1].frame = ApiFrame(CmdSimDisable)
    /\ st.printed = Append(printed, [kind |-> "TX", text |-> CmdSimDisable])

\* TRUE iff a send tick that fires now finds the cursor outside the dataset
EndOfDataset == ~(m_row < Len(m_csvData) /\ m_row >= 0)

\* C18 as stated: from ACTIVE, setSimulationActivated(false), and a send
\* tick at the end of the dataset, leave the feeder ENABLED_IDLE (enabled
\* true, activated false) and transmit one command.
C18_BackToEnabledIdle ==
    Active =>
        \A accepted \in BOOLEAN :
            /\ LET st == setSimulationActivated(Cur, FALSE, accepted)
               IN  st.enabled /\ ~st.activated /\ Len(Written(st)) = 1
            /\ EndOfDataset =>
                  LET st == sendSimulatedData(Cur, accepted)
                  IN  st.enabled /\ ~st.activated /\ Len(Written(st)) = 1

\* C18 amended: from ACTIVE and with the transport connected,
\* setSimulationActivated(false), and a send tick at the end of the dataset,
\* leave the feeder DISABLED (both flags cleared) and transmit
\* CMD,1026,SIM,DISABLE;. With the transport not connected both leave every
\* flag as it is and transmit nothing.
C18_BackToDisabled ==
    Active =>
        \A accepted \in BOOLEAN :
            /\ LET st == setSimulationActivated(Cur, FALSE, accepted)
               IN  IF isConnected THEN DisabledBy(st) ELSE st = Cur
            /\ EndOfDataset =>
                  LET st == sendSimulatedData(Cur, accepted)
                  IN  IF isConnected THEN DisabledBy(st) ELSE st = Cur

\* the feeder was ACTIVE with a loaded dataset, the send tick met the end of
\* the dataset, and the feeder is DISABLED with CMD,1026,SIM,DISABLE; as the
\* last command
C18_Witness ==
    /\ Disabled /\ ~m_simulationActivated
    /\ m_file /\ m_csvData # <<>>
    /\ timers = <<>>
    /\ Len(Transmitted) >= 2
    /\ Transmitted[Len(Transmitted) - 1] = CmdSimActivate
    /\ Transmitted[Len(Transmitted)] = CmdSimDisable

\* C19 as stated: setSimulationMode(false) leaves the feeder DISABLED, with
\* both flags off, whatever the state it is called in.
C19_ModeOffForcesDisabled ==
    \A accepted \in BOOLEAN :
        LET st == setSimulationMode(Cur, FALSE, accepted)
        IN  ~st.enabled /\ ~st.activated

\* C19 amended: setSimulationMode(false) called while the transport is
\* connected leaves the feeder DISABLED, with both flags off, and transmits
\* CMD,1026,SIM,DISABLE;. Called while the transport is not connected it
\* leaves both flags as they are and transmits nothing.
C19_ModeOffWhileConnected ==
    \A accepted \in BOOLEAN :
        LET st == setSimulationMode(Cur, FALSE, accepted)
        IN  IF isConnected THEN DisabledBy(st) ELSE st = Cur

\* the mode was switched off from ENABLED_IDLE while the transport was
\* connected: the last two commands are ENABLE and DISABLE, and both flags
\* are off
C19_Witness ==
    /\ Disabled /\ ~m_simulationActivated
    /\ isConnected
    /\ Len(Transmitted) >= 2
    /\ Transmitted[Len(Transmitted) - 1] = CmdSimEnable
    /\ Transmitted[Len(Transmitted)] = CmdSimDisable
    /\ timers = <<>>

\* what the four mode handlers do in the current state, for one input each
ModeCalls(accepted) ==
    { setSimulationMode(Cur, TRUE, accepted),
      setSimulationMode(Cur, FALSE, accepted),
      setSimulationActivated(Cur, TRUE, accepted),
      setSimulationActivated(Cur, FALSE, accepted),
      setContainerTelemetryEnabled(Cur, TRUE, accepted),
      setContainerTelemetryEnabled(Cur, FALSE, accepted),
      updateContainerTime(Cur, accepted) }

\* C20: while the transport is connected setSimulationMode(true) leaves the
\* feeder ENABLED_IDLE and transmits CMD,1026,SIM,ENABLE;. While it is not
\* connected, setSimulationMode, setSimulationActivated,
\* setContainerTelemetryEnabled and updateContainerTime change no flag and
\* transmit nothing.
C20_GatedOnConnectivity ==
    \A accepted \in BOOLEAN :
        IF isConnected
        THEN LET st == setSimulationMode(Cur, TRUE, accepted)
             IN  /\ st.enabled /\ ~st.activated
                 /\ Len(Written(st)) = 1
                 /\ Written(st)[1].frame = ApiFrame(CmdSimEnable)
                 /\ st.printed = Append(printed, [kind |-> "TX", text |-> CmdSimEnable])
        ELSE \A st \in ModeCalls(accepted) :
                 /\ st.enabled = m_simulationEnabled
                 /\ st.activated = m_simulationActivated
                 /\ st.telemetry = m_containerTelemetryEnabled
                 /\ st.wire = wire
                 /\ st.printed = printed

\* the simulation mode and the container telemetry were switched on while
\* connected, and the transport has since been lost with both flags set
C20_Witness ==
    /\ ~isConnected
    /\ m_simulationEnabled /\ ~m_simulationActivated
    /\ m_containerTelemetryEnabled
    /\ CmdSimEnable \in { Transmitted[i] : i \in 1..Len(Transmitted) }

---------------------------------------------------------------------------
(* Properties of the send loop *)

\* TRUE iff cmd is a simulated-pressure row command, CMD,1026,SIMP,...
IsRowCommand(cmd) == TakeBytes(cmd, Size(CmdSimpPrefix)) = CmdSimpPrefix

\* TRUE iff the step handed a simulated-pressure row command to sendData
RowSent == txCount' = txCount + 1 /\ IsRowCommand(txData')

\* TRUE iff a dataset with rows is loaded
DatasetLoaded == m_file /\ m_csvData # <<>>

\* C21: after a successful setSimulationActivated(true) with a loaded
\* dataset the feeder is ACTIVE, and no row command is transmitted while the
\* startup delay of an activation is still running: a step that transmits a
\* row leaves no timer of an activation with time left.
C21_StartDelayRespected ==
    [][ /\ (isConnected /\ m_simulationEnabled /\ DatasetLoaded) =>
               \A accepted \in BOOLEAN :
                   simulationActivated(setSimulationActivated(Cur, TRUE, accepted))
        /\ RowSent => \A i \in 1..Len(timers') : ticks'[i].start => timers'[i] = 0 ]_vars

\* TRUE iff the handler result st transmitted no row and scheduled no tick
\* beyond the pending ones left
Idle(st, left) ==
    /\ st.row = m_row
    /\ st.txCount = txCount \/ ~IsRowCommand(st.txData)
    /\ st.timers = left

\* C22: a send tick that was pending when simulation was deactivated
\* transmits no row and schedules no further tick when it fires, whatever
\* happened since the deactivation.
C22_CancelledTickIsIdle ==
    \A i \in 1..Len(timers) :
        (timers[i] = 0 /\ ticks[i].cancelled) =>
            \A accepted \in BOOLEAN :
                Idle(sendSimulatedData([Cur EXCEPT !.timers = RemoveAt(@, i)], accepted),
                     RemoveAt(timers, i))

\* C30: at most one send tick is pending at any time.
C30_OneTickPending == Len(timers) <= 1

---------------------------------------------------------------------------
(* Properties of the dataset load *)

\* C23: after every successful dataset load the cursor is at the start
\* position and the feeder is not ACTIVE, whatever the feeder and connection
\* state were before the load.
C23_LoadResetsFeeder ==
    \A lines \in CsvFilesOnDisk : \A accepted \in BOOLEAN :
        LET st == openCsv(Cur, LoadedFileName, lines, TRUE, TRUE, accepted)
        IN  st.row = 1 /\ ~simulationActivated(st)

\* the rows [1026, 12.5] and [30.2]
ExampleRows ==
    << <<TagContainer, Bytes(<<49, 50, 46, 53>>)>>, <<Bytes(<<51, 48, 46, 50>>)>> >>

\* C25: loading the CSV of the lines #comment, an empty line, $,12.5 and
\* 30.2 yields the dataset of exactly the two rows [1026, 12.5] and [30.2].
C25_ExampleDataset ==
    \A accepted \in BOOLEAN :
        openCsv(Cur, LoadedFileName, CsvExample, TRUE, TRUE, accepted).csv = ExampleRows

\* the example was loaded: the dataset holds its two rows, the file is
\* open, and the load was reported
C25_Witness ==
    /\ m_file
    /\ m_csvData = ExampleRows
    /\ Len(m_csvData) = 2 /\ Len(m_csvData[1]) = 2 /\ Len(m_csvData[2]) = 1
    /\ \E i \in 1..Len(printed) : printed[i] = [kind |-> "INFO", text |-> TempFileName]

---------------------------------------------------------------------------
(* Properties of the send tick *)

\* the row commands transmitted so far, in order
RowsTransmitted == SelectSeq(Transmitted, IsRowCommand)

\* C24: a send tick that fires while ACTIVE and connected with the cursor
\* at or beyond the dataset length transmits no row, deactivates the feeder,
\* reports completion exactly once and schedules no further tick.
C24_EndOfDataset ==
    (Active /\ isConnected /\ EndOfDataset) =>
        \A accepted \in BOOLEAN :
            LET st == sendSimulatedData(Cur, accepted)
            IN  /\ st.row = m_row
                /\ \A i \in 1..Len(Written(st)) : Written(st)[i].frame = ApiFrame(CmdSimDisable)
                /\ ~IsRowCommand(st.txData)
                /\ ~simulationActivated(st)
                /\ st.boxes = Append(messageBoxes, "Pressure simulation finished")
                /\ st.timers = timers

\* the rows 8 and 9 of the three-row file were transmitted, the tick after
\* the last row reported completion once and left the feeder DISABLED with no
\* tick pending
C24_Witness ==
    /\ Len(RowsTransmitted) = 2
    /\ m_row = Len(m_csvData)
    /\ messageBoxes = <<"Pressure simulation finished">>
    /\ Disabled
    /\ timers = <<>>
    /\ Transmitted[Len(Transmitted)] = CmdSimDisable

\* the command of the row at the cursor: CMD,1026,SIMP, the first field of
\* the row, and ;
RowCommand == Cat(Cat(CmdSimpPrefix, m_csvData[m_row + 1][1]), Bytes(<<59>>))

\* TRUE iff the step is a dataset load that read the temporary file
LoadStep ==
    /\ Len(printed') = Len(printed) + 2
    /\ printed'[Len(printed')] = [kind |-> "INFO", text |-> TempFileName]
    /\ m_row' = 1

\* C29: a send tick that fires while ACTIVE and connected with the cursor
\* inside the dataset transmits exactly one command, CMD,1026,SIMP, followed
\* by the first field of the row at the cursor and ;, and increases the
\* cursor by one, also when the socket refuses the write; no step other than
\* a dataset load decreases the cursor.
C29_RowTick ==
    [][ /\ (Active /\ isConnected /\ ~EndOfDataset) =>
               \A accepted \in BOOLEAN :
                   LET st == sendSimulatedData(Cur, accepted)
                   IN  /\ st.txCount = txCount + 1
                       /\ st.txData = RowCommand
                       /\ Len(Written(st)) = 1
                       /\ Written(st)[1].frame = ApiFrame(RowCommand)
                       /\ st.txResult = accepted
                       /\ st.row = m_row + 1
        /\ m_row' < m_row => LoadStep
        /\ \A accepted \in BOOLEAN :
               /\ setSimulationMode(Cur, FALSE, accepted).row = m_row
               /\ setSimulationActivated(Cur, TRUE, accepted).row = m_row
               /\ sendSimulatedData(Cur, accepted).row >= m_row ]_vars

\* the rows 8,1 and 9 of the three-row file were transmitted one per tick,
\* as CMD,1026,SIMP,8; and CMD,1026,SIMP,9;, and the cursor went from 1 to 3
C29_Witness ==
    /\ RowsTransmitted = <<AppendRun(AppendRun(CmdSimpPrefix, 56, 1), 59, 1),
                           AppendRun(AppendRun(CmdSimpPrefix, 57, 1), 59, 1)>>
    /\ m_row = 3
    /\ Active
    /\ timers = <<RowDelay>>

----------------------------------------------------------------------------
(* Properties of the reconnection poll *)

\* C26: at most one connection attempt is in flight, and it is in flight
\* exactly while the socket is connecting; tryConnection leaves a connected
\* socket as it is, and on a socket that is not connected it leaves exactly
\* one attempt in flight.
C26_OneAttemptInFlight ==
    /\ connecting <= 1
    /\ connecting = 1 <=> socketState = "ConnectingState"
    /\ \A sock \in {tryConnectionIn(Sock)} :
           /\ isConnected => sock = Sock
           /\ ~isConnected => sock.state = "ConnectingState" /\ sock.connecting = 1

\* a poll found the socket unconnected and started the one attempt in flight
C26_Witness ==
    /\ socketState = "ConnectingState"
    /\ connecting = 1
    /\ tryConnectionIn(Sock).connecting = 1

----------------------------------------------------------------------------
(* Properties of frame consumption *)

\* the stream position of the first byte the buffer holds
BufferStart == Size(stream) - Size(m_dataBuffer)

\* C27: the bytes of every frame handed to processFrame by a receive event
\* are out of the buffer when the event ends (the buffer starts at or after
\* the finish sequence of the frame), and the frames routed so far are
\* distinct occurrences of the stream: each one starts after the one routed
\* before it, and after the finish sequence of that one.
C27_RoutedOnce ==
    [][ /\ \A i \in 1..Len(StepFrames) :
               \A r \in {StepFrames[i]} :
                   /\ BufferStart' >= r.at + Size(r.frame)
                   /\ r.end >= 0 => BufferStart' >= r.end
        /\ \A i, j \in 1..Len(routed') :
               i < j => /\ routed'[i].at < routed'[j].at
                        /\ routed'[i].end < routed'[j].at ]_vars

\* two tagged frames of the stream were routed, each one once, and the
\* buffer starts after the second one
C27_Witness ==
    /\ Len(routed) = 2
    /\ routed[1].frame = TagPayload
    /\ routed[2].frame = TagContainer
    /\ routed[1].end >= 0
    /\ routed[2].end >= 0
    /\ routed[2].at > routed[1].end
    /\ BufferStart >= routed[2].end

\* the buffer the step scans: what was pending followed by the bytes that
\* arrived
Scanned == Cat(m_dataBuffer, StepData)

\* TRUE iff s holds a start sequence and every finish sequence of s ends
\* before the first start sequence begins
NoFinishAfterStart(s) ==
    /\ Contains(s, SLASH, STAR)
    /\ \A i \in {IndexOf(s, SLASH, STAR)} :
           ~Contains(DropBytes(s, IF i > 0 THEN i - 1 ELSE 0), STAR, SLASH)

\* C28: a receive event whose buffer holds a start sequence and has every
\* finish sequence before the first start sequence hands nothing to
\* processFrame and leaves the bytes from that start sequence on in the
\* buffer.
C28_NoExtractionWithoutFrame ==
    [][ \A buffer \in {Scanned} :
            (NoFinishAfterStart(buffer) /\ unconsumed' <= BufferLimit) =>
                /\ StepFrames = <<>>
                /\ \E k \in 0..Size(m_dataBuffer') :
                       DropBytes(m_dataBuffer', k)
                           = DropBytes(buffer, IndexOf(buffer, SLASH, STAR)) ]_vars

---------------------------------------------------------------------------
(* Properties of the feeder flags *)

\* C31: in every reachable state the raw activated flag implies the enabled
\* flag.
C31_ActivatedImpliesEnabled == m_simulationActivated => m_simulationEnabled

\* the feeder was disabled once and is activated again, with the transport
\* lost since
C31_Witness ==
    /\ m_simulationActivated
    /\ m_simulationEnabled
    /\ ~isConnected
    /\ \E i \in 1..Len(Transmitted) : Transmitted[i] = CmdSimDisable

\* TRUE iff the handler result st has the three mode flags of the current
\* state
FlagsKept(st) ==
    /\ st.enabled = m_simulationEnabled
    /\ st.activated = m_simulationActivated
    /\ st.telemetry = m_containerTelemetryEnabled

\* C34: a mode handler whose command frame the transport does not accept in
\* full (sendData returns false) leaves simulationEnabled,
\* simulationActivated and containerTelemetryEnabled as they were.
C34_FlagNeedsAcceptance ==
    \A value \in BOOLEAN :
        /\ \A st \in {setSimulationMode(Cur, value, FALSE)} :
               ~st.txResult => FlagsKept(st)
        /\ \A st \in {setSimulationActivated(Cur, value, FALSE)} :
               ~st.txResult => FlagsKept(st)
        /\ \A st \in {setContainerTelemetryEnabled(Cur, value, FALSE)} :
               ~st.txResult => FlagsKept(st)

---------------------------------------------------------------------------
(* Properties of a failed dataset load *)

\* C35: an openCsv whose selected file does not open leaves the dataset
\* rows, the cursor and both feeder flags as they were, hands nothing to the
\* transport and schedules nothing; it changes the loaded-file indicator
\* only, which then tells that no file is loaded, and reports the failure.
C35_FailedLoadKeepsDataset ==
    \A accepted \in BOOLEAN : \A tempOpened \in BOOLEAN :
    \A st \in {openCsv(Cur, LoadedFileName, <<>>, FALSE, tempOpened, accepted)} :
        /\ st.csv = m_csvData
        /\ st.row = m_row
        /\ st.enabled = m_simulationEnabled
        /\ st.activated = m_simulationActivated
        /\ Written(st) = <<>>
        /\ st.txCount = txCount
        /\ st.printed = printed
        /\ ~simulationCsvLoaded(st)
        /\ [st EXCEPT !.file = m_file, !.boxes = messageBoxes] = Cur

\* a load failed after a dataset had been loaded: the rows and the cursor
\* of that dataset are still there, the indicator tells no file is loaded
C35_Witness ==
    /\ ~m_file
    /\ m_csvData # <<>>
    /\ m_row = 1
    /\ messageBoxes = <<"File open error">>

---------------------------------------------------------------------------
(* Properties of the frame content *)

\* C36: no frame handed to processFrame contains the start sequence or the
\* finish sequence.
C36_NoDelimiterInFrame ==
    \A i \in 1..Len(routed) :
        /\ ~Contains(routed[i].frame, SLASH, STAR)
        /\ ~Contains(routed[i].frame, STAR, SLASH)

---------------------------------------------------------------------------
(* Properties of an attempt in progress *)

\* C37: the 1 Hz poll does not abort a connection attempt that is in
\* progress: while an attempt is in flight, tryConnection drops no attempt.
C37_AttemptNotAborted ==
    connecting > 0 => tryConnectionIn(Sock).dropped = 0

---------------------------------------------------------------------------
(* Properties of the command history *)

\* C38: in the sequence of commands transmitted, every row command
\* CMD,1026,SIMP,... has a CMD,1026,SIM,ACTIVATE; before it with no
\* CMD,1026,SIM,DISABLE; between the two.
C38_RowsOnlyWhileActivated ==
    \A sent \in {Transmitted} :
        \A i \in 1..Len(sent) :
            IsRowCommand(sent[i]) =>
                \E j \in 1..(i - 1) :
                    /\ sent[j] = CmdSimActivate
                    /\ \A k \in (j + 1)..(i - 1) : sent[k] # CmdSimDisable

\* simulation was activated, disabled and activated again, and a row was
\* transmitted after the second activation
C38_Witness ==
    \E sent \in {Transmitted} :
        \E i, j, k \in 1..Len(sent) :
            /\ i < j /\ j < k /\ k < Len(sent)
            /\ sent[i] = CmdSimActivate
            /\ sent[j] = CmdSimDisable
            /\ sent[k] = CmdSimActivate
            /\ IsRowCommand(sent[Len(sent)])

---------------------------------------------------------------------------
(* Properties of a complete run *)

\* the row commands of the rows of csv, first row to last
RowCommands(csv) ==
    [i \in 1..Len(csv) |-> AppendRun(Cat(CmdSimpPrefix, csv[i][1]), 59, 1)]

\* the positions in printed of the entries equal to e
PrintedAt(e) == {i \in 1..Len(printed) : printed[i] = e}

\* TRUE iff the run so far is one load, then one activation, then the
\* completion report, with the feeder never taken out of ACTIVE in between
UninterruptedRun ==
    /\ messageBoxes = <<"Pressure simulation finished">>
    /\ \E l \in PrintedAt([kind |-> "INFO", text |-> TempFileName]) :
       \E a \in PrintedAt([kind |-> "TX", text |-> CmdSimActivate]) :
           /\ l < a
           /\ PrintedAt([kind |-> "TX", text |-> CmdSimActivate]) = {a}
           /\ \A k \in (a + 1)..Len(printed) :
                  printed[k].kind = "TX" =>
                      \/ IsRowCommand(printed[k].text)
                      \/ k = Len(printed) /\ printed[k].text = CmdSimDisable

\* C33: between a dataset load and the completion report of an
\* uninterrupted activation every row of the dataset, first to last, is
\* transmitted exactly once and in row order.
C33_EveryRowOnce ==
    UninterruptedRun => RowsTransmitted = RowCommands(m_csvData)

---------------------------------------------------------------------------
(* Liveness of the send loop *)

\* C32: if from some point on the transport stays connected, a feeder that
\* is ACTIVE is eventually not ACTIVE any more (it reaches the end of the
\* dataset and deactivates). Said the other way round: no behaviour ends
\* up connected and ACTIVE for ever.
C32_SendLoopTerminates == []<>(~isConnected \/ ~Active)

---------------------------------------------------------------------------
(* Properties of the inbound transport *)

\* C39: once the socket has read every byte the companion sent, the bytes
\* handed to the reassembler are the data payloads of the messages sent, in
\* order and complete, however the bytes were split over the readyRead
\* events.
C39_NoPayloadLost == sockIn = <<>> => stream = sentData

=============================================================================
